---- MODULE Spec2Model ----
(***************************************************************************)
(* Model of the Polly text-to-speech backend: the text chunker             *)
(* (PollyTTS._chunk_text), the voice catalog (PollyTTS.list_voices), the   *)
(* voice and engine resolution (PollyTTS.select_voice and the engine block *)
(* of the /synthesize handler), the synthesis driver                       *)
(* (PollyTTS.synthesize) and the audio assembler (iter_audio).             *)
(*                                                                         *)
(* A text is a sequence of one-character strings.  Python's None is the    *)
(* value None.  Positions inside _chunk_text are 0-based, as in the code.  *)
(***************************************************************************)
EXTENDS Integers, Sequences, FiniteSets, TLC

VARIABLES
    req,              \* the form fields of the /synthesize request
    catalog,          \* the remote service's voices, in the order it lists them
    text,             \* the handler's text; the argument of _chunk_text
    max_len,          \* the max_len argument of _chunk_text
    chunks,           \* the list _chunk_text returned
    pc,               \* the position of the handler, or of the response iterator
    lv,               \* the running list_voices call: its site, params and voices
    voice_id,         \* the handler's voice_id
    selected_engine,  \* the handler's selected_engine
    k,                \* the index of the chunk PollyTTS.synthesize is at
    wf,               \* the wave writer of iter_audio and the buffer it writes
    response,         \* what the client has been answered so far
    events            \* history: remote calls, their returns, bytes handed over

vars == <<req, catalog, text, max_len, chunks, pc, lv, voice_id, selected_engine,
          k, wf, response, events>>

\* Python's None, for the optional strings.  An optional value that is not a
\* string (an int, a token, a text) is a set: {} for None, {x} for x.
None == "None"
The(opt) == CHOOSE x \in opt : TRUE

\* ---------------------------------------------------------------- bounds
\* Longest text given to _chunk_text on its own.
MaxTextLen == 6
\* Largest max_len given to _chunk_text on its own.
MaxChunkLen == 4
\* The max_len PollyTTS.synthesize chunks with: the default, 2900 in the code,
\* scaled down to the model's texts.
DefaultMaxLen == 3
\* Voices the remote service returns per describe_voices page.
PageSize == 1
\* Most voices in a catalog of the resolution runs.
MaxVoices == 3

Chars == {"a", ".", " ", "\n"}

Min(a, b) == IF a < b THEN a ELSE b
Max(a, b) == IF a > b THEN a ELSE b

\* All texts of at most n characters.
RECURSIVE TextsUpTo(_)
TextsUpTo(n) ==
    IF n = 0 THEN {<<>>}
    ELSE LET shorter == TextsUpTo(n - 1)
         IN  shorter \cup {Append(t, c) : t \in {s \in shorter : Len(s) = n - 1}, c \in Chars}

\* A plausible slip: str.find, the lowest index, in place of str.rfind.
Find1(s, c) ==
    LET hits == {i \in 0..(Len(s) - 1) : s[i + 1] = c}
    IN  IF hits = {} THEN -1 ELSE CHOOSE i \in hits : \A j \in hits : i <= j

\* ------------------------------------------------------- PollyTTS._chunk_text
\* str.rfind of a one-character pattern: the highest 0-based index, or -1.
RFind1(s, c) ==
    LET hits == {i \in 0..(Len(s) - 1) : s[i + 1] = c}
    IN  IF hits = {} THEN -1 ELSE CHOOSE i \in hits : \A j \in hits : j <= i

\* str.rfind of a two-character pattern.
RFind2(s, c1, c2) ==
    LET hits == {i \in 0..(Len(s) - 2) : s[i + 1] = c1 /\ s[i + 2] = c2}
    IN  IF hits = {} THEN -1 ELSE CHOOSE i \in hits : \A j \in hits : j <= i

\* text[start:end]
Slice(s, start, end) == SubSeq(s, start + 1, end)

\* A plausible slip: the slice leaves out the break character it was cut at.
SliceTextDropsBreak(s, start, end) ==
    IF end < Len(s) /\ end - start >= 2 /\ s[end] \in {" ", "\n"}
    THEN SubSeq(s, start + 1, end - 1)
    ELSE SubSeq(s, start + 1, end)

\* slice_text = text[start:end], the chunk appended for the window [start, end).
SliceText(s, start, end) == Slice(s, start, end)

\* A plausible slip: the window is one character too wide.
WindowEndOffByOne(s, m, start) == Min(start + m + 1, Len(s))

\* end = min(start + max_len, len(text))
WindowEnd(s, m, start) == Min(start + m, Len(s))

\* A plausible slip: the three searches are tried in order and the first one
\* found at a positive offset wins, instead of the highest index.
LastBreakByPriority(slice_text) ==
    IF RFind1(slice_text, "\n") > 0 THEN RFind1(slice_text, "\n")
    ELSE IF RFind2(slice_text, ".", " ") > 0 THEN RFind2(slice_text, ".", " ")
    ELSE RFind1(slice_text, " ")

\* last_break = max(rfind("\n"), rfind(". "), rfind(" "))
LastBreak(slice_text) ==
    Max(RFind1(slice_text, "\n"), Max(RFind2(slice_text, ".", " "), RFind1(slice_text, " ")))

\* The end of the chunk that starts at start: the window's end, moved back to
\* just after the last break when the window stops short of the text's end and
\* a break is found at a positive offset.
ChunkEnd(s, m, start) ==
    LET end == WindowEnd(s, m, start)
        last_break == LastBreak(Slice(s, start, end))
    IN  IF end < Len(s) /\ last_break > 0 THEN start + last_break + 1 ELSE end

\* The while loop of _chunk_text from position start on.
RECURSIVE ChunkLoop(_, _, _)
ChunkLoop(s, m, start) ==
    IF start < Len(s)
    THEN LET end == ChunkEnd(s, m, start)
         IN  <<SliceText(s, start, end)>> \o ChunkLoop(s, m, end)
    ELSE <<>>

_chunk_text(s, m) == IF Len(s) <= m THEN <<s>> ELSE ChunkLoop(s, m, 0)

\* The concatenation of a sequence of texts.
RECURSIVE Concat(_)
Concat(ss) == IF ss = <<>> THEN <<>> ELSE Head(ss) \o Concat(Tail(ss))

\* ------------------------------------------------------------ Python values
\* bool(x) of an optional string.
Truthy(x) == x # None /\ x # ""

\* a or b, of optional strings.
Or(a, b) == IF Truthy(a) THEN a ELSE b

\* str.lower, on the strings the model uses.
Lower(x) ==
    CASE x = "Female" -> "female"
      [] x = "FEMALE" -> "female"
      [] x = " Female " -> " female "
      [] x = "Male" -> "male"
      [] x = "Neural" -> "neural"
      [] x = "Standard" -> "standard"
      [] OTHER -> x

\* str.strip, on the strings the model uses.
Strip(x) ==
    CASE x = " Female " -> "Female"
      [] x = " female " -> "female"
      [] OTHER -> x

\* str(n) of an int: the decimal text of n, told apart from n itself.
Str(n) == <<"str", n>>

Whitespace == {" ", "\n"}

\* A plausible slip: only `not text` is tested, text.strip() is forgotten.
BlankEmptyOnly(s) == s = <<>>

\* not text or not text.strip()
Blank(s) == \A i \in 1..Len(s) : s[i] \in Whitespace

\* ---------------------------------------------------------- program constants
\* sample_rate or 16000
DefaultSampleRate == 16000

\* --------------------------------------------------------- the remote service
\* What client.describe_voices(**params) answers: one page of the voices of the
\* language asked for, and a NextToken when more pages follow.
describe_voices(cat, params) ==
    LET all == IF params.LanguageCode = None THEN cat
               ELSE SelectSeq(cat, LAMBDA v : v.LanguageCode = params.LanguageCode)
        from == IF params.NextToken = {} THEN 1 ELSE The(params.NextToken)[2]
        to == Min(from + PageSize - 1, Len(all))
    IN  [Voices |-> SubSeq(all, from, to),
         NextToken |-> IF to < Len(all) THEN {<<"token", to + 1>>} ELSE {}]

\* What resp["AudioStream"].read() gives for one synthesize_speech call.
AudioStream(params) == <<"audio", params.OutputFormat, params.Text>>

\* ------------------------------------------------------ PollyTTS.list_voices
IdleListing == [site |-> "idle", LanguageCode |-> None, NextToken |-> {}, voices |-> <<>>]

\* list_voices(language_code) entered from the call site `site`: params holds
\* LanguageCode only when language_code is truthy, and no NextToken yet.
ListVoicesEnter(site, language_code) ==
    [site |-> site,
     LanguageCode |-> IF Truthy(language_code) THEN language_code ELSE None,
     NextToken |-> {},
     voices |-> <<>>]

\* The params of the next describe_voices call of the running list_voices.
ListingParams == [LanguageCode |-> lv.LanguageCode, NextToken |-> lv.NextToken]

DescribeEvent(ok) ==
    [ev |-> "describe_voices", site |-> lv.site, params |-> ListingParams, ok |-> ok]

\* ----------------------------------------------------- PollyTTS.select_voice
\* voices = [v for v in voices if v.get("Gender", "").lower() == g]
FilterGender(voices, gender) ==
    IF Truthy(gender)
    THEN SelectSeq(voices, LAMBDA v : Lower(v.Gender) = Lower(Strip(gender)))
    ELSE voices

\* "neural" in [e.lower() for e in v.get("SupportedEngines", [])]
SupportsNeural(v) ==
    \E i \in 1..Len(v.SupportedEngines) : Lower(v.SupportedEngines[i]) = "neural"

\* A plausible slip: the first candidate is taken without preferring neural.
PickVoiceFirstOnly(voices) == IF voices # <<>> THEN voices[1].Id ELSE "Joanna"

\* The first voice supporting neural, else the first voice, else "Joanna".
PickVoice(voices) ==
    IF \E i \in 1..Len(voices) : SupportsNeural(voices[i])
    THEN voices[CHOOSE i \in 1..Len(voices) :
                    /\ SupportsNeural(voices[i])
                    /\ \A j \in 1..(i - 1) : ~SupportsNeural(voices[j])].Id
    ELSE IF voices # <<>> THEN voices[1].Id ELSE "Joanna"

\* dst_lang or accent or language_code
LanguageHint(r) == Or(Or(r.dst_lang, r.accent), r.language_code)

\* ------------------------------------- the engine block of the handler
\* [e.lower() for e in voice_info.get("SupportedEngines", [])], as a set.
SupportedOf(voice_info) ==
    {Lower(voice_info.SupportedEngines[i]) : i \in 1..Len(voice_info.SupportedEngines)}

\* "neural" if "neural" in supported else ("standard" if "standard" in supported else None)
Substitute(supported) ==
    IF "neural" \in supported THEN "neural"
    ELSE IF "standard" \in supported THEN "standard" ELSE None

\* A plausible slip: the requested engine is kept although the voice lacks it.
ResolveEngineKeepsRequest(voice_catalog, vid, engine) ==
    LET found == {i \in 1..Len(voice_catalog) : voice_catalog[i].Id = vid}
    IN  IF found = {} THEN engine
        ELSE LET voice_info == voice_catalog[CHOOSE i \in found : \A j \in found : i <= j]
                 supported == SupportedOf(voice_info)
             IN  IF supported = {} THEN None
                 ELSE IF ~Truthy(engine) THEN Substitute(supported)
                 ELSE engine

\* selected_engine after the try block, given the catalog it listed.
ResolveEngine(voice_catalog, vid, engine) ==
    LET found == {i \in 1..Len(voice_catalog) : voice_catalog[i].Id = vid}
    IN  IF found = {} THEN engine
        ELSE LET voice_info == voice_catalog[CHOOSE i \in found : \A j \in found : i <= j]
                 supported == SupportedOf(voice_info)
             IN  IF supported = {} THEN None
                 ELSE IF Truthy(engine) /\ Lower(engine) \notin supported
                      THEN Substitute(supported)
                 ELSE IF ~Truthy(engine) THEN Substitute(supported)
                 ELSE engine

\* ------------------------------------------------------- PollyTTS.synthesize
RawFormats == {"mp3", "ogg_vorbis", "pcm"}

\* What iter_audio passes to tts.synthesize as output_format and sample_rate.
IsWav == req.format = "wav"

\* A plausible slip: the wav branch always falls back to the default rate.
ActualSrAlwaysDefault == DefaultSampleRate

\* actual_sr = sample_rate or 16000
ActualSr ==
    IF req.sample_rate = {} \/ The(req.sample_rate) = 0
    THEN DefaultSampleRate ELSE The(req.sample_rate)
OutputFormat == IF IsWav THEN "pcm" ELSE req.format
SampleRateArg == IF IsWav THEN {ActualSr} ELSE req.sample_rate

\* A plausible slip: every call carries the whole text, not its chunk.
SynthesizeParamsWholeText(chunk) ==
    [Text |-> text,
     OutputFormat |-> OutputFormat,
     VoiceId |-> voice_id,
     Engine |-> IF Truthy(selected_engine) THEN selected_engine ELSE None,
     LanguageCode |-> IF Truthy(LanguageHint(req)) THEN LanguageHint(req) ELSE None,
     SampleRate |-> IF SampleRateArg = {} THEN {} ELSE {Str(The(SampleRateArg))},
     TextType |-> "text"]

\* params of synthesize, with Text=chunk.
SynthesizeParams(chunk) ==
    [Text |-> chunk,
     OutputFormat |-> OutputFormat,
     VoiceId |-> voice_id,
     Engine |-> IF Truthy(selected_engine) THEN selected_engine ELSE None,
     LanguageCode |-> IF Truthy(LanguageHint(req)) THEN LanguageHint(req) ELSE None,
     SampleRate |-> IF SampleRateArg = {} THEN {} ELSE {Str(The(SampleRateArg))},
     TextType |-> "text"]

NoWave == [state |-> "none", nchannels |-> 0, sampwidth |-> 0, framerate |-> 0, frames |-> <<>>]

\* ------------------------------------------------------------ the requests
Request(t, f, voice, gender, fmt, engine, language_code, sample_rate, src_lang, dst_lang) ==
    [text |-> t, file |-> f, voice |-> voice, gender |-> gender, accent |-> None,
     format |-> fmt, engine |-> engine, language_code |-> language_code,
     sample_rate |-> sample_rate, src_lang |-> src_lang, dst_lang |-> dst_lang]

NoRequest == Request({}, {}, None, None, "mp3", None, None, {}, None, None)

\* Texts of one, two and three chunks under DefaultMaxLen.
OneChunkText == <<"a", "b">>
TwoChunkText == <<"a", "b", " ", "c", "d">>
ThreeChunkText == <<"a", "b", " ", "c", "d", "\n", "e", "f">>

\* What the translation service may answer.
TranslatedTexts == {<<"x", " ", "y", "z">>}

Voice(id, gender, language_code, engines) ==
    [Id |-> id, Gender |-> gender, LanguageCode |-> language_code,
     SupportedEngines |-> engines]

\* The requests and catalogs the pipeline is run on: every format, text given,
\* missing, blank or uploaded, with and without translation.
PipelineRequests ==
    {Request(t, f, voice, None, fmt, engine, lc, sr, langs[1], langs[2]) :
        t \in {{}, {<<>>}, {<<" ", "\n">>}, {ThreeChunkText}},
        f \in {{}, {<<"\n">>}, {TwoChunkText}},
        voice \in {None, "V1"},
        fmt \in {"mp3", "ogg_vorbis", "pcm", "wav", "flac"},
        engine \in {None, "neural"},
        lc \in {None, "en-US"},
        sr \in {{}, {0}, {8000}},
        langs \in {<<None, None>>, <<"en", "fr-FR">>, <<"en", "en">>}}

PipelineCatalogs ==
    {<<>>,
     <<Voice("V1", "Female", "en-US", <<"standard">>),
       Voice("V2", "Male", "fr-FR", <<"neural", "standard">>)>>}

\* The state when the handler is entered with request r, the remote service
\* holding catalog c.  The handler's text is the form field ('' for None: the
\* code tests it with `not text` only).
InitWith(r, c) ==
    /\ req = r
    /\ catalog = c
    /\ text = IF r.text = {} THEN <<>> ELSE The(r.text)
    /\ max_len = DefaultMaxLen
    /\ chunks = <<>>
    /\ pc = "acquire"
    /\ lv = IdleListing
    /\ voice_id = None
    /\ selected_engine = None
    /\ k = 0
    /\ wf = NoWave
    /\ response = "none"
    /\ events = <<>>

Init == \E r \in PipelineRequests, c \in PipelineCatalogs : InitWith(r, c)

\* ------------------------------------------------- the /synthesize handler
\* text = (await file.read()).decode(...) when a file came and text is falsy.
AcquiredText == IF req.file # {} /\ text = <<>> THEN The(req.file) ELSE text

\* The engine block begins: selected_engine = engine, then list_voices().
EnterEngineBlock(vid) ==
    /\ voice_id' = vid
    /\ selected_engine' = req.engine
    /\ lv' = ListVoicesEnter("engine", None)
    /\ pc' = "list_voices"

\* The handler returns its StreamingResponse: the status line is sent and the
\* transport starts to iterate iter_audio().
ReturnStreamingResponse ==
    /\ response' = "streaming"
    /\ pc' = "iter_audio"
    /\ lv' = IdleListing

\* The text is read and is usable.
AcquireText ==
    /\ pc = "acquire"
    /\ ~Blank(AcquiredText)
    /\ text' = AcquiredText
    /\ pc' = "translate"
    /\ UNCHANGED <<req, catalog, max_len, chunks, lv, voice_id, selected_engine,
                   k, wf, response, events>>

\* if not text or not text.strip(): 400.
RejectNoText ==
    /\ pc = "acquire"
    /\ Blank(AcquiredText)
    /\ text' = AcquiredText
    /\ response' = "400"
    /\ pc' = "done"
    /\ UNCHANGED <<req, catalog, max_len, chunks, lv, voice_id, selected_engine,
                   k, wf, events>>

NeedsTranslation ==
    Truthy(req.src_lang) /\ Truthy(req.dst_lang) /\ req.src_lang # req.dst_lang

\* translate_text returned: text = translated.
TranslateOk ==
    /\ pc = "translate"
    /\ NeedsTranslation
    /\ \E translated \in TranslatedTexts : text' = translated
    /\ events' = Append(events, [ev |-> "translate", ok |-> TRUE])
    /\ pc' = "select_voice"
    /\ UNCHANGED <<req, catalog, max_len, chunks, lv, voice_id, selected_engine,
                   k, wf, response>>

\* translate_text raised: 500, "Translation failed".
TranslateFail ==
    /\ pc = "translate"
    /\ NeedsTranslation
    /\ events' = Append(events, [ev |-> "translate", ok |-> FALSE])
    /\ response' = "500"
    /\ pc' = "done"
    /\ UNCHANGED <<req, catalog, text, max_len, chunks, lv, voice_id,
                   selected_engine, k, wf>>

\* The else branch: no translation.
NoTranslate ==
    /\ pc = "translate"
    /\ ~NeedsTranslation
    /\ pc' = "select_voice"
    /\ UNCHANGED <<req, catalog, text, max_len, chunks, lv, voice_id,
                   selected_engine, k, wf, response, events>>

\* select_voice with a preferred_voice_id: returned as it is, and the engine
\* block starts.
SelectPreferredVoice ==
    /\ pc = "select_voice"
    /\ Truthy(req.voice)
    /\ EnterEngineBlock(req.voice)
    /\ UNCHANGED <<req, catalog, text, max_len, chunks, k, wf, response, events>>

\* select_voice without one: list_voices(language_code=language_code).
SelectVoiceList ==
    /\ pc = "select_voice"
    /\ ~Truthy(req.voice)
    /\ lv' = ListVoicesEnter("select_voice", LanguageHint(req))
    /\ pc' = "list_voices"
    /\ UNCHANGED <<req, catalog, text, max_len, chunks, voice_id, selected_engine,
                   k, wf, response, events>>

\* One describe_voices call answered with a NextToken: the page is kept and
\* the while loop goes on with the token in params.
DescribeVoicesPage ==
    /\ pc = "list_voices"
    /\ LET resp == describe_voices(catalog, ListingParams)
       IN  /\ resp.NextToken # {}
           /\ lv' = [lv EXCEPT !.voices = @ \o resp.Voices,
                               !.NextToken = resp.NextToken]
    /\ events' = Append(events, DescribeEvent(TRUE))
    /\ UNCHANGED <<req, catalog, text, max_len, chunks, pc, voice_id,
                   selected_engine, k, wf, response>>

\* A plausible slip: the pages replace one another instead of adding up.
ListedVoicesLastPageOnly == describe_voices(catalog, ListingParams).Voices

\* The voices list_voices returns when the call being answered is its last.
ListedVoices == lv.voices \o describe_voices(catalog, ListingParams).Voices

LastPage == describe_voices(catalog, ListingParams).NextToken = {}

ReturnEvent == [ev |-> "list_voices_return", site |-> lv.site, voices |-> ListedVoices]

\* The last page of select_voice's first listing: the gender filter, then
\* either the choice of a voice or the listing of the whole catalog.
SelectVoiceListed ==
    /\ pc = "list_voices"
    /\ lv.site = "select_voice"
    /\ LastPage
    /\ events' = events \o <<DescribeEvent(TRUE), ReturnEvent>>
    /\ LET voices == FilterGender(ListedVoices, req.gender)
       IN  IF voices = <<>>
           THEN /\ lv' = ListVoicesEnter("select_voice_fallback", None)
                /\ UNCHANGED <<pc, voice_id, selected_engine>>
           ELSE EnterEngineBlock(PickVoice(voices))
    /\ UNCHANGED <<req, catalog, text, max_len, chunks, k, wf, response>>

\* The last page of select_voice's second listing, list_voices().
SelectVoiceFallbackListed ==
    /\ pc = "list_voices"
    /\ lv.site = "select_voice_fallback"
    /\ LastPage
    /\ events' = events \o <<DescribeEvent(TRUE), ReturnEvent>>
    /\ EnterEngineBlock(PickVoice(FilterGender(ListedVoices, req.gender)))
    /\ UNCHANGED <<req, catalog, text, max_len, chunks, k, wf, response>>

\* A describe_voices call of select_voice raised: nothing catches it, the
\* request ends with a 500.
SelectVoiceListFail ==
    /\ pc = "list_voices"
    /\ lv.site \in {"select_voice", "select_voice_fallback"}
    /\ events' = events \o <<DescribeEvent(FALSE),
                             [ev |-> "list_voices_raise", site |-> lv.site]>>
    /\ lv' = IdleListing
    /\ response' = "500"
    /\ pc' = "done"
    /\ UNCHANGED <<req, catalog, text, max_len, chunks, voice_id, selected_engine,
                   k, wf>>

\* The last page of the engine block's list_voices(): the engine is resolved
\* and the handler returns.
EngineListed ==
    /\ pc = "list_voices"
    /\ lv.site = "engine"
    /\ LastPage
    /\ events' = events \o <<DescribeEvent(TRUE), ReturnEvent>>
    /\ selected_engine' = ResolveEngine(ListedVoices, voice_id, req.engine)
    /\ ReturnStreamingResponse
    /\ UNCHANGED <<req, catalog, text, max_len, chunks, voice_id, k, wf>>

\* A plausible slip: the except branch clears the engine instead of keeping
\* the caller's.
EngineListFailClearsEngine ==
    /\ pc = "list_voices"
    /\ lv.site = "engine"
    /\ events' = events \o <<DescribeEvent(FALSE),
                             [ev |-> "list_voices_raise", site |-> lv.site]>>
    /\ selected_engine' = None
    /\ ReturnStreamingResponse
    /\ UNCHANGED <<req, catalog, text, max_len, chunks, voice_id, k, wf>>

\* A describe_voices call of the engine block raised: except Exception sets
\* selected_engine = engine and the handler returns.
EngineListFail ==
    /\ pc = "list_voices"
    /\ lv.site = "engine"
    /\ events' = events \o <<DescribeEvent(FALSE),
                             [ev |-> "list_voices_raise", site |-> lv.site]>>
    /\ selected_engine' = req.engine
    /\ ReturnStreamingResponse
    /\ UNCHANGED <<req, catalog, text, max_len, chunks, voice_id, k, wf>>

\* ------------------------------------------ iter_audio and PollyTTS.synthesize
\* The first next() of iter_audio: the wave writer is set up for wav, and
\* synthesize checks output_format and chunks the text.
IterAudioStart ==
    /\ pc = "iter_audio"
    /\ OutputFormat \in RawFormats
    /\ wf' = IF IsWav
             THEN [state |-> "open", nchannels |-> 1, sampwidth |-> 2,
                   framerate |-> ActualSr, frames |-> <<>>]
             ELSE wf
    /\ chunks' = _chunk_text(text, max_len)
    /\ k' = 1
    /\ pc' = "synthesize"
    /\ UNCHANGED <<req, catalog, text, max_len, lv, voice_id, selected_engine,
                   response, events>>

\* synthesize raises ValueError for an output_format it does not know: the
\* response, already started, breaks off.
IterAudioBadFormat ==
    /\ pc = "iter_audio"
    /\ OutputFormat \notin RawFormats
    /\ response' = "aborted"
    /\ pc' = "done"
    /\ UNCHANGED <<req, catalog, text, max_len, chunks, lv, voice_id,
                   selected_engine, k, wf, events>>

\* client.synthesize_speech(Text=chunk, **params) is issued for chunk k.
SynthesizeSpeechCall ==
    /\ pc = "synthesize"
    /\ k <= Len(chunks)
    /\ events' = Append(events, [ev |-> "synthesize_speech", k |-> k,
                                 params |-> SynthesizeParams(chunks[k])])
    /\ pc' = "synthesize_wait"
    /\ UNCHANGED <<req, catalog, text, max_len, chunks, lv, voice_id,
                   selected_engine, k, wf, response>>

\* A plausible slip: the audio of every format is collected and none is
\* yielded while chunks are still to come.
SynthesizeSpeechReturnBuffered ==
    /\ pc = "synthesize_wait"
    /\ LET audio == AudioStream(SynthesizeParams(chunks[k]))
       IN  /\ wf' = [wf EXCEPT !.frames = Append(@, audio)]
           /\ events' = Append(events, [ev |-> "synthesize_return", k |-> k, audio |-> audio])
    /\ k' = k + 1
    /\ pc' = "synthesize"
    /\ UNCHANGED <<req, catalog, text, max_len, chunks, lv, voice_id,
                   selected_engine, response>>

\* The call returned: the audio is yielded, to the client or, for wav, to
\* wf.writeframes.
SynthesizeSpeechReturn ==
    /\ pc = "synthesize_wait"
    /\ LET audio == AudioStream(SynthesizeParams(chunks[k]))
           returned == [ev |-> "synthesize_return", k |-> k, audio |-> audio]
       IN  IF IsWav
           THEN /\ wf' = [wf EXCEPT !.frames = Append(@, audio)]
                /\ events' = Append(events, returned)
           ELSE /\ wf' = wf
                /\ events' = events \o <<returned, [ev |-> "deliver", k |-> k, bytes |-> audio]>>
    /\ k' = k + 1
    /\ pc' = "synthesize"
    /\ UNCHANGED <<req, catalog, text, max_len, chunks, lv, voice_id,
                   selected_engine, response>>

\* A plausible slip: the exception is swallowed and the loop goes on with the
\* next chunk.
SynthesizeSpeechFailSkipsChunk ==
    /\ pc = "synthesize_wait"
    /\ events' = Append(events, [ev |-> "synthesize_raise", k |-> k])
    /\ k' = k + 1
    /\ pc' = "synthesize"
    /\ UNCHANGED <<req, catalog, text, max_len, chunks, lv, voice_id,
                   selected_engine, wf, response>>

\* The call raised: the exception leaves synthesize and iter_audio (closing
\* the wave writer on its way), and the response breaks off.
SynthesizeSpeechFail ==
    /\ pc = "synthesize_wait"
    /\ events' = Append(events, [ev |-> "synthesize_raise", k |-> k])
    /\ wf' = IF IsWav THEN [wf EXCEPT !.state = "closed"] ELSE wf
    /\ response' = "aborted"
    /\ pc' = "done"
    /\ UNCHANGED <<req, catalog, text, max_len, chunks, lv, voice_id,
                   selected_engine, k>>

\* Every chunk is done: for wav the writer is closed and the buffer, header
\* and frames, is yielded; the response is complete.
IterAudioEnd ==
    /\ pc = "synthesize"
    /\ k > Len(chunks)
    /\ IF IsWav
       THEN /\ wf' = [wf EXCEPT !.state = "closed"]
            /\ events' = Append(events, [ev |-> "deliver", k |-> 0,
                                         bytes |-> [wf EXCEPT !.state = "closed"]])
       ELSE UNCHANGED <<wf, events>>
    /\ response' = "complete"
    /\ pc' = "done"
    /\ UNCHANGED <<req, catalog, text, max_len, chunks, lv, voice_id,
                   selected_engine, k>>

Next ==
    \/ AcquireText
    \/ RejectNoText
    \/ TranslateOk
    \/ TranslateFail
    \/ NoTranslate
    \/ SelectPreferredVoice
    \/ SelectVoiceList
    \/ DescribeVoicesPage
    \/ SelectVoiceListed
    \/ SelectVoiceFallbackListed
    \/ SelectVoiceListFail
    \/ EngineListed
    \/ EngineListFail
    \/ IterAudioStart
    \/ IterAudioBadFormat
    \/ SynthesizeSpeechCall
    \/ SynthesizeSpeechReturn
    \/ SynthesizeSpeechFail
    \/ IterAudioEnd

Spec == Init /\ [][Next]_vars

\* ----------------------------------------- the requests of voice resolution
VoiceIds == <<"V1", "V2", "V3", "V4", "V5">>

\* Every catalog of at most n voices, the i-th named VoiceIds[i], whose gender,
\* language and engines are drawn from the given sets.
RECURSIVE CatalogsUpTo(_, _, _, _)
CatalogsUpTo(n, genders, languages, engines) ==
    IF n = 0 THEN {<<>>}
    ELSE LET shorter == CatalogsUpTo(n - 1, genders, languages, engines)
         IN  shorter \cup
             {Append(c, Voice(VoiceIds[n], g, l, e)) :
                 c \in {s \in shorter : Len(s) = n - 1},
                 g \in genders, l \in languages, e \in engines}

\* Requests that leave the voice to select_voice, or name one, over catalogs
\* of voices of two genders and two languages, with and without neural.
VoiceRequests ==
    {Request({OneChunkText}, {}, voice, gender, "mp3", None, lc, {}, None, None) :
        voice \in {None, "Zed"},
        gender \in {None, " Female "},
        lc \in {None, "fr-FR"}}

VoiceCatalogs ==
    CatalogsUpTo(MaxVoices, {"Female", "Male"}, {"en-US", "fr-FR"},
                 {<<"standard">>, <<"standard", "Neural">>})

\* Requests that name their voice and ask for an engine or for none, over
\* catalogs of voices of every engine set.
EngineRequests ==
    {Request({OneChunkText}, {}, voice, None, "mp3", engine, None, {}, None, None) :
        voice \in {"V1", "V2", "Zed"},
        engine \in {None, "", "standard", "Neural", "long-form"}}

EngineCatalogs ==
    CatalogsUpTo(MaxVoices, {"Female"}, {"en-US"},
                 {<<>>, <<"standard">>, <<"Neural", "standard">>, <<"long-form">>, <<"neural">>})

\* A few requests of the pipeline, for the handler's other paths.
OtherRequests ==
    {r \in PipelineRequests :
        r.voice = "V1" /\ r.engine = None /\ r.language_code = None /\ r.sample_rate = {}}

InitResolve ==
    \/ \E r \in VoiceRequests, c \in VoiceCatalogs : InitWith(r, c)
    \/ \E r \in EngineRequests, c \in EngineCatalogs : InitWith(r, c)
    \/ \E r \in OtherRequests, c \in PipelineCatalogs : InitWith(r, c)

SpecResolve == InitResolve /\ [][Next]_vars

\* --------------------------------------------------- the chunker on its own
InitChunk ==
    /\ text \in TextsUpTo(MaxTextLen)
    /\ max_len \in 1..MaxChunkLen
    /\ chunks = <<>>
    /\ pc = "chunk_call"
    /\ req = NoRequest
    /\ catalog = <<>>
    /\ lv = IdleListing
    /\ voice_id = None
    /\ selected_engine = None
    /\ k = 0
    /\ wf = NoWave
    /\ response = "none"
    /\ events = <<>>

\* One call of _chunk_text(text, max_len).
ChunkTextCall ==
    /\ pc = "chunk_call"
    /\ chunks' = _chunk_text(text, max_len)
    /\ pc' = "chunk_done"
    /\ UNCHANGED <<req, catalog, text, max_len, lv, voice_id, selected_engine,
                   k, wf, response, events>>

NextChunk == ChunkTextCall

SpecChunk == InitChunk /\ [][NextChunk]_vars

\* ------------------------------------------------------------------ claims
\* C1: when _chunk_text has returned, the concatenation of its chunks, in
\* order, is the input text exactly.
C1_RoundTrip == pc = "chunk_done" => Concat(chunks) = text

\* C1 witness: a text was split into three chunks, one of them cut at a break
\* point (shorter than max_len) and one a hard cut (max_len long, no break).
C1_Witness ==
    /\ pc = "chunk_done"
    /\ Len(chunks) >= 3
    /\ \E i \in 1..(Len(chunks) - 1) : Len(chunks[i]) < max_len
    /\ \E i \in 1..(Len(chunks) - 1) :
          Len(chunks[i]) = max_len /\ LastBreak(chunks[i]) <= 0

\* C2: for a non-empty text, _chunk_text returns at least one chunk and no
\* chunk is longer than max_len.
C2_Bounded ==
    (pc = "chunk_done" /\ text # <<>>) =>
        /\ Len(chunks) >= 1
        /\ \A i \in 1..Len(chunks) : Len(chunks[i]) <= max_len

\* C2 witness: a text longer than max_len was chunked, with a chunk of exactly
\* max_len characters and a shorter chunk cut just after a newline.
C2_Witness ==
    /\ pc = "chunk_done"
    /\ Len(text) > max_len
    /\ \E i \in 1..Len(chunks) : Len(chunks[i]) = max_len
    /\ \E i \in 1..(Len(chunks) - 1) :
          /\ Len(chunks[i]) < max_len
          /\ chunks[i][Len(chunks[i])] = "\n"

\* -------------------------------------------------- reading the history
\* The positions of the events of kind e.
EventsOf(e) == {i \in 1..Len(events) : events[i].ev = e}

\* The events of kind e, in order.
History(e) == SelectSeq(events, LAMBDA x : x.ev = e)

\* C3: the call for chunk j + 1 is never issued before the call for chunk j
\* has returned; and when the response is complete, exactly one
\* synthesize_speech call per chunk of the text was issued, the j-th carrying
\* the j-th chunk, and exactly one audio buffer per chunk was yielded, in
\* chunk order.
C3_OneCallPerChunkInOrder ==
    /\ \A i \in EventsOf("synthesize_speech") :
          events[i].k > 1 =>
              \E h \in 1..(i - 1) :
                  events[h].ev = "synthesize_return" /\ events[h].k = events[i].k - 1
    /\ response = "complete" =>
          LET pieces == _chunk_text(text, max_len)
              calls == History("synthesize_speech")
              yields == History("synthesize_return")
          IN  /\ Len(calls) = Len(pieces)
              /\ \A j \in 1..Len(calls) :
                    calls[j].k = j /\ calls[j].params.Text = pieces[j]
              /\ Len(yields) = Len(pieces)
              /\ \A j \in 1..Len(yields) :
                    yields[j].k = j /\ yields[j].audio = AudioStream(calls[j].params)

\* C3 witness: a response over a text of three chunks is complete.
C3_Witness ==
    /\ response = "complete"
    /\ Len(_chunk_text(text, max_len)) = 3
    /\ Len(History("synthesize_speech")) = 3

\* C4: once the synthesize_speech call for chunk j has raised, the response
\* has broken off, the raise is the last event (no retry, no later call, no
\* later audio), and no audio of chunk j or of a later chunk was yielded or
\* handed to the client.
C4_FailureIsTerminal ==
    \A i \in EventsOf("synthesize_raise") :
        /\ response = "aborted"
        /\ pc = "done"
        /\ i = Len(events)
        /\ Cardinality({h \in EventsOf("synthesize_speech") : events[h].k = events[i].k}) = 1
        /\ \A h \in EventsOf("synthesize_speech") : events[h].k <= events[i].k
        /\ \A h \in EventsOf("synthesize_return") : events[h].k < events[i].k
        /\ \A h \in EventsOf("deliver") : events[h].k \in 1..(events[i].k - 1)

\* C4 witness: the call for chunk 2 raised after chunk 1's audio had been
\* handed to the client.
C4_Witness ==
    /\ \E i \in EventsOf("synthesize_raise") : events[i].k = 2
    /\ \E h \in EventsOf("deliver") : events[h].k = 1

\* Something was handed to the client before the call for the last chunk was
\* issued.
DeliveredBeforeLastCall ==
    \A i \in EventsOf("synthesize_speech") :
        events[i].k = Len(chunks) => \E h \in 1..(i - 1) : events[h].ev = "deliver"

\* C5 as claimed: for mp3, ogg_vorbis, pcm and wav alike, when the text has
\* at least two chunks, bytes of chunk 1 are handed to the client before the
\* call for the last chunk is issued.
C5_IncrementalEveryFormat ==
    (req.format \in {"mp3", "ogg_vorbis", "pcm", "wav"} /\ Len(chunks) >= 2) =>
        DeliveredBeforeLastCall

\* C5 amended: for mp3, ogg_vorbis and pcm the audio of every chunk is handed
\* to the client as soon as its call returns, so chunk 1's audio is handed
\* over before the last chunk's call is issued; for wav nothing is handed over
\* before the call of the last chunk has returned, and then the one container
\* holding every chunk's frames is.
C5_IncrementalRawBufferedWav ==
    Len(chunks) >= 2 =>
        /\ req.format \in RawFormats =>
              /\ DeliveredBeforeLastCall
              /\ \A i \in EventsOf("synthesize_return") :
                    /\ i < Len(events)
                    /\ events[i + 1].ev = "deliver"
                    /\ events[i + 1].k = events[i].k
                    /\ events[i + 1].bytes = events[i].audio
        /\ req.format = "wav" =>
              \A h \in EventsOf("deliver") :
                  /\ \E i \in 1..(h - 1) :
                        events[i].ev = "synthesize_return" /\ events[i].k = Len(chunks)
                  /\ Len(events[h].bytes.frames) = Len(chunks)

\* C5 witness: an mp3 response whose last call, of three, has been issued.
C5_Witness ==
    /\ req.format = "mp3"
    /\ Len(chunks) = 3
    /\ \E i \in EventsOf("synthesize_speech") : events[i].k = 3
    /\ \E h \in EventsOf("deliver") : events[h].k = 1

\* C6 as claimed: a request whose format is none of mp3, ogg_vorbis, pcm, wav
\* sees no describe_voices call and no synthesize_speech call, and no
\* synthesize_speech call ever carries a format outside mp3, ogg_vorbis, pcm.
C6_RejectedBeforeAnyCall ==
    /\ req.format \notin {"mp3", "ogg_vorbis", "pcm", "wav"} =>
          EventsOf("describe_voices") \cup EventsOf("synthesize_speech") = {}
    /\ \A i \in EventsOf("synthesize_speech") :
          events[i].params.OutputFormat \in RawFormats

\* C7 as claimed: once a describe_voices call has raised, in voice resolution
\* or in engine resolution, the request has not failed: the handler goes on
\* with the requested engine, and does not end without a synthesize_speech
\* call.
C7_ListingFailureNeverBlocks ==
    (/\ req.format \in {"mp3", "ogg_vorbis", "pcm", "wav"}
     /\ \E i \in EventsOf("describe_voices") : ~events[i].ok) =>
        /\ response # "500"
        /\ selected_engine = req.engine
        /\ pc = "done" => EventsOf("synthesize_speech") # {}

\* C7 amended: once a describe_voices call of the engine block has raised, the
\* request has not failed: the response is started, selected_engine is the
\* requested engine as the caller gave it, every synthesize_speech call
\* carries it, and the response does not end without such a call.  Once a
\* describe_voices call of select_voice has raised, the request has failed
\* with a 500 and no synthesize_speech call is issued.
C7_EngineListingFailureNeverBlocks ==
    /\ (/\ req.format \in {"mp3", "ogg_vorbis", "pcm", "wav"}
        /\ \E i \in EventsOf("describe_voices") :
              ~events[i].ok /\ events[i].site = "engine") =>
           /\ response \in {"streaming", "complete", "aborted"}
           /\ selected_engine = req.engine
           /\ \A h \in EventsOf("synthesize_speech") :
                 events[h].params.Engine = IF Truthy(req.engine) THEN req.engine ELSE None
           /\ pc = "done" => EventsOf("synthesize_speech") # {}
    /\ (\E i \in EventsOf("describe_voices") :
              ~events[i].ok /\ events[i].site # "engine") =>
           /\ response = "500"
           /\ pc = "done"
           /\ EventsOf("synthesize_speech") = {}

\* C7 witness: the engine block's listing raised on its second page, and a
\* synthesize_speech call went out with the requested engine, neural, which
\* the voice, V1, does not support.
C7_Witness ==
    /\ req.engine = "neural"
    /\ voice_id = "V1"
    /\ catalog # <<>>
    /\ \E i \in EventsOf("describe_voices") :
          /\ ~events[i].ok
          /\ events[i].site = "engine"
          /\ events[i].params.NextToken # {}
    /\ \E h \in EventsOf("synthesize_speech") : events[h].params.Engine = "neural"

\* The least element of a non-empty set of positions.
First(S) == CHOOSE i \in S : \A j \in S : i <= j

\* The voice the stated policy picks for the request from the catalog.
C8_GenderMatches(v) ==
    ~Truthy(req.gender) \/ Lower(v.Gender) = Lower(Strip(req.gender))

C8_PolicyVoice ==
    LET lc == LanguageHint(req)
        ofLanguage == {i \in 1..Len(catalog) :
                          /\ Truthy(lc) => catalog[i].LanguageCode = lc
                          /\ C8_GenderMatches(catalog[i])}
        global == {i \in 1..Len(catalog) : C8_GenderMatches(catalog[i])}
        candidates == IF ofLanguage = {} THEN global ELSE ofLanguage
        neural == {i \in candidates :
                      \E e \in 1..Len(catalog[i].SupportedEngines) :
                          Lower(catalog[i].SupportedEngines[e]) = "neural"}
    IN  IF Truthy(req.voice) THEN req.voice
        ELSE IF neural # {} THEN catalog[First(neural)].Id
        ELSE IF candidates # {} THEN catalog[First(candidates)].Id
        ELSE "Joanna"

\* C8: the voice select_voice returns is the preferred id, unchanged and
\* without any describe_voices call of select_voice, when one is given;
\* otherwise the first voice supporting neural, else the first voice, among
\* the voices of the requested language with the requested gender or, when
\* there is none, among all voices with the requested gender; else "Joanna".
C8_SelectVoicePolicy ==
    voice_id # None =>
        /\ voice_id = C8_PolicyVoice
        /\ Truthy(req.voice) =>
              \A i \in EventsOf("describe_voices") : events[i].site = "engine"

\* C8 witness: no voice of the requested language and gender exists, the
\* whole catalog was listed, and a neural voice that is not the first of the
\* catalog was chosen.
C8_Witness ==
    /\ ~Truthy(req.voice)
    /\ Truthy(req.gender)
    /\ Truthy(LanguageHint(req))
    /\ \E i \in EventsOf("list_voices_return") : events[i].site = "select_voice_fallback"
    /\ Len(catalog) >= 2
    /\ voice_id \notin {None, "Joanna", catalog[1].Id}

\* The engines of the resolved voice, lower-cased, when the catalog lists it.
C9_Supported ==
    LET at == First({i \in 1..Len(catalog) : catalog[i].Id = voice_id})
    IN  {Lower(catalog[at].SupportedEngines[e]) :
            e \in 1..Len(catalog[at].SupportedEngines)}

\* C9: when the engine block has listed the catalog and the resolved voice is
\* in it, selected_engine is None if the voice supports no engine; the
\* requested engine if one is given and the voice supports it (compared in
\* lower case); else "neural" if supported, else "standard" if supported,
\* else None.  So a selected engine that is not None is one the voice supports.
C9_ResolveEnginePolicy ==
    (/\ \E i \in EventsOf("list_voices_return") : events[i].site = "engine"
     /\ \E i \in 1..Len(catalog) : catalog[i].Id = voice_id) =>
        /\ selected_engine =
              IF C9_Supported = {} THEN None
              ELSE IF Truthy(req.engine) /\ Lower(req.engine) \in C9_Supported
                   THEN req.engine
              ELSE IF "neural" \in C9_Supported THEN "neural"
              ELSE IF "standard" \in C9_Supported THEN "standard"
              ELSE None
        /\ selected_engine # None => Lower(selected_engine) \in C9_Supported

\* C9 witness: the engine asked for is not one of the voice's, which supports
\* standard only, and standard was selected.
C9_Witness ==
    /\ \E i \in EventsOf("list_voices_return") : events[i].site = "engine"
    /\ \E i \in 1..Len(catalog) : catalog[i].Id = voice_id
    /\ req.engine = "long-form"
    /\ C9_Supported = {"standard"}
    /\ selected_engine = "standard"

\* The voices of the catalog that a listing of language lc (None: all) covers.
C10_Served(lc) ==
    SelectSeq(catalog, LAMBDA v : lc = None \/ v.LanguageCode = lc)

\* The number of pages the service serves them in.
C10_Pages(lc) ==
    IF C10_Served(lc) = <<>> THEN 1
    ELSE (Len(C10_Served(lc)) + PageSize - 1) \div PageSize

\* The position of the first describe_voices call of the listing that
\* returned or raised at position i.
C10_FirstCall(i) ==
    First({b \in 1..i : \A j \in b..(i - 1) : events[j].ev = "describe_voices"})

\* C10: a list_voices that returned issued exactly as many describe_voices
\* calls as the service has pages for its language, the first without a
\* token, each later one with the NextToken of the response before it and
\* with the same LanguageCode, and returned the voices of all pages in page
\* order.  A list_voices whose describe_voices call raised, raised: it did
\* not return, whatever pages it had fetched.
C10_ListVoicesPaginates ==
    /\ \A i \in EventsOf("list_voices_return") :
          LET b == C10_FirstCall(i)
              lc == events[b].params.LanguageCode
          IN  /\ i - b = C10_Pages(lc)
              /\ lc = IF events[i].site = "select_voice" /\ Truthy(LanguageHint(req))
                      THEN LanguageHint(req) ELSE None
              /\ events[b].params.NextToken = {}
              /\ \A j \in (b + 1)..(i - 1) :
                    /\ events[j].params.LanguageCode = lc
                    /\ events[j].params.NextToken # {}
                    /\ events[j].params.NextToken =
                          describe_voices(catalog, events[j - 1].params).NextToken
              /\ \A j \in b..(i - 1) : events[j].ok /\ events[j].site = events[i].site
              /\ events[i].voices = C10_Served(lc)
    /\ \A j \in EventsOf("describe_voices") :
          ~events[j].ok =>
              /\ j < Len(events)
              /\ events[j + 1].ev = "list_voices_raise"
              /\ \A i \in EventsOf("list_voices_return") : events[i].site # events[j].site

\* C10 witness: a listing with a language filter returned three voices after
\* three calls, the last two carrying tokens.
C10_Witness ==
    \E i \in EventsOf("list_voices_return") :
        /\ i >= 4
        /\ Len(events[i].voices) = 3
        /\ C10_FirstCall(i) = i - 3
        /\ events[i - 1].params.LanguageCode = "fr-FR"
        /\ events[i - 1].params.NextToken # {}
        /\ events[i - 2].params.NextToken # {}
        /\ events[i - 2].params.NextToken # events[i - 1].params.NextToken

\* The sample rate a wav request is served at: the caller's, or 16000 when the
\* request gives none.
C11_Rate == IF req.sample_rate = {} THEN 16000 ELSE The(req.sample_rate)

\* The PCM buffers the driver has returned so far, in the order of their return.
C11_Buffers ==
    LET yields == History("synthesize_return")
    IN  [j \in 1..Len(yields) |-> yields[j].audio]

\* C11: for a wav request whose sample rate is missing or positive, every
\* synthesize_speech call asks for pcm at the caller's rate, or at 16000 when
\* none is given; whatever is handed to the client is one closed container
\* that declares that rate, 1 channel and 2-byte samples and whose frames are
\* the pcm buffers of all chunks of the text, in chunk order; and a complete
\* response has handed over exactly one such container.
C11_WavAsksPcmAndDeclaresRate ==
    (req.format = "wav" /\ (req.sample_rate = {} \/ The(req.sample_rate) > 0)) =>
        /\ \A i \in EventsOf("synthesize_speech") :
              /\ events[i].params.OutputFormat = "pcm"
              /\ events[i].params.SampleRate = {Str(C11_Rate)}
        /\ \A i \in EventsOf("synthesize_return") :
              events[i].audio = <<"audio", "pcm", _chunk_text(text, max_len)[events[i].k]>>
        /\ \A i \in EventsOf("deliver") :
              LET container == events[i].bytes
              IN  /\ container.state = "closed"
                  /\ container.framerate = C11_Rate
                  /\ container.nchannels = 1
                  /\ container.sampwidth = 2
                  /\ container.frames = C11_Buffers
                  /\ Len(container.frames) = Len(_chunk_text(text, max_len))
                  /\ \A j \in 1..Len(container.frames) :
                        History("synthesize_return")[j].k = j
        /\ response = "complete" => Cardinality(EventsOf("deliver")) = 1

\* C11 witness: a wav request that gives a sample rate of 8000 is complete
\* over a text of three chunks, and its container holds three buffers.
C11_Witness ==
    /\ req.format = "wav"
    /\ req.sample_rate = {8000}
    /\ response = "complete"
    /\ \E i \in EventsOf("deliver") :
          /\ Len(events[i].bytes.frames) = 3
          /\ events[i].bytes.framerate = 8000

\* The text of the request after text acquisition: the form text, or the
\* text of the uploaded file when a file is given and the form text is
\* missing or empty.
C12_Acquired ==
    LET form == IF req.text = {} THEN <<>> ELSE The(req.text)
    IN  IF req.file # {} /\ form = <<>> THEN The(req.file) ELSE form

\* The acquired text is missing, empty or made of whitespace only.
C12_NoText == \A i \in 1..Len(C12_Acquired) : C12_Acquired[i] \in {" ", "\n"}

\* C12: a request whose acquired text is missing, empty or whitespace-only
\* never issues a translation call, a describe_voices call or a
\* synthesize_speech call, and once the handler has looked at the text the
\* request is over with status 400.
C12_NoTextRejectedBeforeAnyCall ==
    C12_NoText =>
        /\ events = <<>>
        /\ pc \in {"acquire", "done"}
        /\ pc = "done" => response = "400"
        /\ pc = "acquire" => response = "none"

\* C12 witness: a request whose form text is whitespace only, that asks for a
\* translation and uploads a file, has been answered with 400.
C12_Witness ==
    /\ req.text = {<<" ", "\n">>}
    /\ req.file # {}
    /\ req.src_lang = "en"
    /\ req.dst_lang = "fr-FR"
    /\ response = "400"
    /\ pc = "done"
    /\ events = <<>>

\* The position in the text where chunk j starts.
C13_Start(j) == Len(Concat(SubSeq(chunks, 1, j - 1)))

\* The window of chunk j: up to max_len characters from where it starts.
C13_Window(j) ==
    SubSeq(text, C13_Start(j) + 1, IF C13_Start(j) + max_len < Len(text)
                                   THEN C13_Start(j) + max_len ELSE Len(text))

\* The chunks whose window stops short of the end of the text.
C13_InnerChunks == {j \in 1..Len(chunks) : C13_Start(j) + max_len < Len(text)}

\* Offsets, from 0, of the newlines, sentence ends and spaces of a window.
C13_Newlines(w) == {i \in 0..(Len(w) - 1) : w[i + 1] = "\n"}
C13_SentenceEnds(w) == {i \in 0..(Len(w) - 2) : w[i + 1] = "." /\ w[i + 2] = " "}
C13_Spaces(w) == {i \in 0..(Len(w) - 1) : w[i + 1] = " "}

\* The highest offset of a set of offsets, -1 when there is none.
C13_Last(S) == IF S = {} THEN -1 ELSE CHOOSE i \in S : \A h \in S : h <= i

\* C13 as claimed: a window that stops short of the end of the text is cut
\* just after its last newline if that lies at a positive offset, otherwise
\* just after its last ". " if that lies at a positive offset, otherwise just
\* after its last space if that lies at a positive offset, otherwise at
\* max_len. (A cut at a sentence end may fall after the "." or after the
\* space that follows it.)
C13_CutByPriority ==
    (pc = "chunk_done" /\ Len(text) > max_len) =>
        \A j \in C13_InnerChunks :
            LET w == C13_Window(j)
                nl == C13_Last(C13_Newlines(w))
                se == C13_Last(C13_SentenceEnds(w))
                sp == C13_Last(C13_Spaces(w))
            IN  IF nl > 0 THEN Len(chunks[j]) = nl + 1
                ELSE IF se > 0 THEN Len(chunks[j]) \in {se + 1, se + 2}
                ELSE IF sp > 0 THEN Len(chunks[j]) = sp + 1
                ELSE Len(chunks[j]) = max_len

\* C13 amended: a window that stops short of the end of the text is cut just
\* after its last break of any kind, that is after the highest of the offsets
\* of its last newline, its last ". " and its last space, when that offset is
\* positive, and at max_len otherwise; a window that reaches the end of the
\* text is taken whole.
C13_CutAfterLatestBreak ==
    (pc = "chunk_done" /\ Len(text) > max_len) =>
        \A j \in 1..Len(chunks) :
            LET w == C13_Window(j)
                latest == C13_Last(C13_Newlines(w) \cup C13_SentenceEnds(w)
                                       \cup C13_Spaces(w))
            IN  IF j \in C13_InnerChunks
                THEN Len(chunks[j]) = IF latest > 0 THEN latest + 1 ELSE max_len
                ELSE chunks[j] = w

\* C13 witness: a window that stops short of the end of the text holds a
\* newline at a positive offset and a space after it, and was cut just after
\* the space.
C13_Witness ==
    /\ pc = "chunk_done"
    /\ Len(text) > max_len
    /\ \E j \in C13_InnerChunks :
          LET w == C13_Window(j)
              nl == C13_Last(C13_Newlines(w))
              sp == C13_Last(C13_Spaces(w))
          IN  nl > 0 /\ sp > nl /\ Len(chunks[j]) = sp + 1

\* The offsets, from 1 on, of the break points of a window: a newline, a
\* space, or a "." followed by a space.
C14_Breaks(w) ==
    {i \in 1..(Len(w) - 1) :
        \/ w[i + 1] \in {"\n", " "}
        \/ i + 2 <= Len(w) /\ w[i + 1] = "." /\ w[i + 2] = " "}

\* Where a non-final piece that starts at start may end: just after any break
\* point of its window when the window has one at a positive offset, and
\* exactly max_len further on otherwise.
C14_Ends(start) ==
    LET w == SubSeq(text, start + 1, start + max_len)
    IN  IF C14_Breaks(w) = {} THEN {start + max_len}
        ELSE {start + i + 1 : i \in C14_Breaks(w)}

\* The least number of pieces of such a split of the text from start on: one
\* final piece when at most max_len characters are left, and otherwise one
\* non-final piece and the best split of what follows it.
RECURSIVE C14_MinPieces(_)
C14_MinPieces(start) ==
    IF Len(text) - start <= max_len THEN 1
    ELSE LET best == CHOOSE e \in C14_Ends(start) :
                         \A h \in C14_Ends(start) : C14_MinPieces(e) <= C14_MinPieces(h)
         IN  1 + C14_MinPieces(best)

\* The chunks returned are themselves such a split: every chunk before the
\* last one ends where a non-final piece may end.
C14_IsSuchASplit ==
    /\ Concat(chunks) = text
    /\ \A j \in 1..Len(chunks) : Len(chunks[j]) <= max_len
    /\ \A j \in 1..(Len(chunks) - 1) :
          C13_Start(j) + Len(chunks[j]) \in C14_Ends(C13_Start(j))

\* C14: for every text and max_len >= 1, the chunks returned are a split of
\* the text into pieces of at most max_len characters whose non-final pieces
\* end at a break point of their window when it has one at a positive offset
\* and are hard cuts of max_len otherwise, and no split of that kind has
\* fewer pieces; a text no longer than max_len comes back as one chunk equal
\* to the text.
C14_ChunkCountMinimal ==
    pc = "chunk_done" =>
        /\ C14_IsSuchASplit
        /\ Len(chunks) <= C14_MinPieces(0)
        /\ Len(text) <= max_len => chunks = <<text>>

\* C14 witness: the first window of a text has two break points at positive
\* offsets, cutting at the earlier one would cost more pieces than the best
\* split, and the chunks returned are as few as the best split.
C14_Witness ==
    /\ pc = "chunk_done"
    /\ Len(text) > max_len
    /\ Len(chunks) >= 2
    /\ Len(chunks) = C14_MinPieces(0)
    /\ \E e \in C14_Ends(0) : e < Len(chunks[1]) /\ 1 + C14_MinPieces(e) > Len(chunks)
====
